---- MODULE Spec2Model ----
(***************************************************************************)
(* Episode rollout orchestration of clemcore / playpen.                    *)
(*                                                                         *)
(* Part 1: the dynamic batching path.  A GameSession wraps one game        *)
(* environment, a SinglePassGameSessionPoller visits the sessions once per *)
(* pass and keeps the exhaustion table, and a DynamicBatchDataLoader       *)
(* chunks every pass into batches of at most batch_size rows.  The game    *)
(* environment is the MockGameMasterEnv of test_dynamic_batch_loader.py,   *)
(* which allows done_after observations before it terminates.             *)
(***************************************************************************)
EXTENDS Integers, Sequences, FiniteSets, TLC

\* Bounds of the model.
MaxSessions == 3
MaxDoneAfter == 3
MaxBatchSize == 5

VARIABLES
    envs,        \* envs[i]: the MockGameMasterEnv wrapped by the i-th session
    batch_size,  \* DynamicBatchDataLoader.batch_size
    exhausted,   \* SinglePassGameSessionPoller.exhausted, parallel to envs
    pc,          \* position of the loader's iteration: poll, emit, step, done
    pass,        \* the observations of the pass that is being chunked
    cursor,      \* how many observations of pass have been emitted
    passes,      \* history: the observation list of every pass so far
    pollers,     \* history: the (envs, exhausted) every pass started from
    batches,     \* history: every batch emitted so far
    batchPass,   \* history: for every batch, the number of the pass it is from
    raised,      \* 0, or the index of the session whose env raised in a pass
    \* Part 2, the branching path
    gms,         \* gms[g]: the state of the game master with identity g
    nodes,       \* nodes[n]: the tree node with identity n
    call,        \* the operation called last, with its arguments
    bpc,         \* position of the loop that drives the BranchingGameMaster
    factor,      \* BranchingGameMaster._branching_factor
    criteria,    \* BranchingGameMaster._branching_criteria
    bdone,       \* BranchingGameMaster._done
    active,      \* BranchingGameMaster._active_parent_masters
    steps,       \* the List[List[BranchingStep]] handed to the next step()
    round,       \* history: what the last step() was given and returned
    views,       \* history: the trees get_active_tree() has returned
    \* Part 3, the recorders
    recorder,        \* a GameInteractionsRecorder
    event_recorder,  \* an EventCallRecorder
    log_calls        \* history: how often the log methods were called

schedVars ==
    <<envs, batch_size, exhausted, pc, pass, cursor, passes, pollers, batches,
      batchPass, raised>>

treeVars ==
    <<gms, nodes, call, bpc, factor, criteria, bdone, active, steps, round, views>>

recVars == <<recorder, event_recorder, log_calls>>

vars == <<schedVars, treeVars, recVars>>

\* call.seq counts the calls made so far; args and factor are the parent
\* masters and the branching factor a call was given.
NoCall ==
    [op |-> "none", parent |-> 0, child |-> 0, seq |-> 0, args |-> <<>>, factor |-> 1]

\* No game master, no tree node and no BranchingGameMaster exists.
TreeIdle ==
    /\ gms = <<>>
    /\ nodes = <<>>
    /\ call = NoCall
    /\ bpc = "idle"
    /\ factor = 0
    /\ criteria = "none"
    /\ bdone = FALSE
    /\ active = <<>>
    /\ steps = <<>>
    /\ round = <<>>
    /\ views = <<>>

Min(a, b) == IF a < b THEN a ELSE b

\* ceil(a / b) for a >= 0, b > 0
CeilDiv(a, b) == (a + b - 1) \div b

(***************************************************************************)
(* MockGameMasterEnv                                                       *)
(***************************************************************************)

\* MockGameMasterEnv.__init__: terminations["player_0"] is False.
MockGameMasterEnv(session_id, done_after) ==
    [session_id |-> session_id,
     done_after |-> done_after,
     observe_count |-> 0,
     terminated |-> FALSE]

\* The tests' `env.terminations["player_0"] = True`: a game that is done
\* before the first poll.
MarkDone(env) == [env EXCEPT !.terminated = TRUE]

\* Mutant of last: terminates one observation early (>= instead of >).
last_early(env) ==
    LET count == env.observe_count + 1
        termination == count >= env.done_after
    IN  [env |-> [env EXCEPT !.observe_count = count,
                             !.terminated = env.terminated \/ termination],
         context |-> [turn |-> count, session |-> env.session_id],
         termination |-> termination]

\* Mutant of last: reports the termination but does not record it in
\* self.terminations.
last_unrecorded(env) ==
    LET count == env.observe_count + 1
        termination == count > env.done_after
    IN  [env |-> [env EXCEPT !.observe_count = count],
         context |-> [turn |-> count, session |-> env.session_id],
         termination |-> termination]

\* Mutant of last: the turn counter of the context is the count before the
\* increment.
last_stale_turn(env) ==
    LET count == env.observe_count + 1
        termination == count > env.done_after
    IN  [env |-> [env EXCEPT !.observe_count = count,
                             !.terminated = env.terminated \/ termination],
         context |-> [turn |-> env.observe_count, session |-> env.session_id],
         termination |-> termination]

\* MockGameMasterEnv.last: counts the observation, terminates once more than
\* done_after observations have been made.  Returns the env after the call
\* with the context and the termination flag of the returned tuple.
last(env) ==
    LET count == env.observe_count + 1
        termination == count > env.done_after
    IN  [env |-> [env EXCEPT !.observe_count = count,
                             !.terminated = env.terminated \/ termination],
         context |-> [turn |-> count, session |-> env.session_id],
         termination |-> termination]

\* MockGameMasterEnv.step: `pass`.
step(env, response) == env

\* MockGameMasterEnv.player_by_agent_id["player_0"]: MockPlayer("player_<id>").
player_by_agent_id(env) == [name |-> env.session_id]

(***************************************************************************)
(* GameSession                                                             *)
(***************************************************************************)

\* GameSession.is_done: the active agent of the env has terminated.
is_done(env) == env.terminated

\* One iteration of a GameSession: nothing when the env is done, else the env
\* is observed and yields (session_id, player, context) unless the observation
\* reports termination.  Returns the env after the poll and the sequence of
\* zero or one observations.
poll(env) ==
    IF is_done(env)
    THEN [env |-> env, obs |-> <<>>]
    ELSE LET r == last(env)
         IN  IF r.termination
             THEN [env |-> r.env, obs |-> <<>>]
             ELSE [env |-> r.env,
                   obs |-> << <<env.session_id, player_by_agent_id(env), r.context>> >>]

\* GameSession.collate_fn: a list of observations becomes three parallel
\* lists (session_ids, players, contexts).
collate_fn(batch) ==
    << [i \in 1..Len(batch) |-> batch[i][1]],
       [i \in 1..Len(batch) |-> batch[i][2]],
       [i \in 1..Len(batch) |-> batch[i][3]] >>

(***************************************************************************)
(* SinglePassGameSessionPoller                                             *)
(***************************************************************************)

\* The poller's visit of the i-th session in a pass: an exhausted session is
\* skipped, the others are polled once.
visit(es, ex, i) == IF ex[i] THEN [env |-> es[i], obs |-> <<>>] ELSE poll(es[i])

RECURSIVE yielded(_, _, _)
\* The observations the visits of the sessions i, i+1, ... yield, in order.
yielded(es, ex, i) ==
    IF i > Len(es) THEN <<>> ELSE visit(es, ex, i).obs \o yielded(es, ex, i + 1)

\* Mutant of poll_pass: a session that yields nothing is not marked exhausted.
poll_pass_nomark(es, ex) ==
    [envs |-> [i \in 1..Len(es) |-> visit(es, ex, i).env],
     exhausted |-> ex,
     obs |-> yielded(es, ex, 1)]

\* One pass of the poller over all sessions in input order: a session that
\* yields nothing is marked exhausted, an observation is appended to the
\* result.  The sessions do not share state, so the pass is the sequence of
\* the visits' results.
poll_pass(es, ex) ==
    [envs |-> [i \in 1..Len(es) |-> visit(es, ex, i).env],
     exhausted |-> [i \in 1..Len(es) |-> ex[i] \/ visit(es, ex, i).obs = <<>>],
     obs |-> yielded(es, ex, 1)]

\* all(poller.exhausted)
all_exhausted(ex) == \A i \in 1..Len(ex) : ex[i]

(***************************************************************************)
(* DynamicBatchDataLoader                                                  *)
(***************************************************************************)

\* Mutant of chunk: the whole rest of the pass, whatever the batch size.
chunk_unbounded(obs, from, size) == SubSeq(obs, from + 1, Len(obs))

\* The chunk of the pass that starts after `from` observations: at most
\* size observations, in order.
chunk(obs, from, size) == SubSeq(obs, from + 1, Min(from + size, Len(obs)))

\* The envs a test can construct for session_id: a fresh env with some
\* done_after, or an env with done_after = 0 that is marked done.
TestEnvs(session_id) ==
    {MockGameMasterEnv(session_id, d) : d \in 0..MaxDoneAfter}
        \cup {MarkDone(MockGameMasterEnv(session_id, 0))}

\* The session lists the tests construct: the i-th session has id i-1.
InitialEnvs(n) ==
    { es \in [1..n -> UNION {TestEnvs(id) : id \in 0..(n - 1)}] :
        \A i \in 1..n : es[i] \in TestEnvs(i - 1) }

\* Before the sessions, the poller and the loader are constructed.
SchedInit ==
    /\ envs = <<>>
    /\ batch_size = 0
    /\ exhausted = <<>>
    /\ pc = "new"
    /\ pass = <<>>
    /\ cursor = 0
    /\ passes = <<>>
    /\ pollers = <<>>
    /\ batches = <<>>
    /\ batchPass = <<>>
    /\ raised = 0

\* Mutant of Construct: the batch size is not validated.
Construct_unchecked ==
    /\ pc = "new"
    /\ \E n \in 0..MaxSessions : envs' \in InitialEnvs(n)
    /\ batch_size' \in -1..MaxBatchSize
    /\ exhausted' = [i \in 1..Len(envs') |-> FALSE]
    /\ pc' = "poll"
    /\ UNCHANGED <<pass, cursor, passes, pollers, batches, batchPass, raised>>
    /\ UNCHANGED <<treeVars, recVars>>

\* The test constructs the sessions, SinglePassGameSessionPoller(sessions)
\* with nothing exhausted, and DynamicBatchDataLoader(poller, batch_size=B),
\* and starts to iterate the loader.  A batch size B <= 0 is a configuration
\* error: the loader's constructor raises and there is nothing to iterate.
Construct ==
    /\ pc = "new"
    /\ \E n \in 0..MaxSessions : envs' \in InitialEnvs(n)
    /\ batch_size' \in -1..MaxBatchSize
    /\ exhausted' = [i \in 1..Len(envs') |-> FALSE]
    /\ pc' = IF batch_size' <= 0 THEN "rejected" ELSE "poll"
    /\ UNCHANGED <<pass, cursor, passes, pollers, batches, batchPass, raised>>
    /\ UNCHANGED <<treeVars, recVars>>

\* Mutant of RequestPass: an empty pass resets the poller's table, so that
\* the loader could be iterated again.
RequestPass_reset ==
    /\ pc = "poll"
    /\ pass' = poll_pass(envs, exhausted).obs
    /\ envs' = poll_pass(envs, exhausted).envs
    /\ exhausted' = IF pass' = <<>>
                    THEN [i \in 1..Len(envs) |-> FALSE]
                    ELSE poll_pass(envs, exhausted).exhausted
    /\ passes' = Append(passes, pass')
    /\ pc' = IF pass' = <<>> THEN "done" ELSE "emit"
    /\ pollers' = Append(pollers, [envs |-> envs, exhausted |-> exhausted])
    /\ cursor' = 0
    /\ UNCHANGED <<batch_size, batches, batchPass, raised>>
    /\ UNCHANGED <<treeVars, recVars>>

\* The loader requests one pass from the poller; an empty pass ends the
\* iteration, a non-empty one is chunked next.
RequestPass ==
    /\ pc = "poll"
    /\ pass' = poll_pass(envs, exhausted).obs
    /\ envs' = poll_pass(envs, exhausted).envs
    /\ exhausted' = poll_pass(envs, exhausted).exhausted
    /\ passes' = Append(passes, pass')
    /\ pc' = IF pass' = <<>> THEN "done" ELSE "emit"
    /\ pollers' = Append(pollers, [envs |-> envs, exhausted |-> exhausted])
    /\ cursor' = 0
    /\ UNCHANGED <<batch_size, batches, batchPass, raised>>
    /\ UNCHANGED <<treeVars, recVars>>

\* The loader emits the next chunk of the pass as one collated batch.
EmitBatch ==
    /\ pc = "emit"
    /\ LET c == chunk(pass, cursor, batch_size)
       IN  /\ batches' = Append(batches, collate_fn(c))
           /\ cursor' = cursor + Len(c)
    /\ batchPass' = Append(batchPass, Len(passes))
    /\ pc' = "step"
    /\ UNCHANGED <<envs, batch_size, exhausted, pass, passes, pollers, raised>>
    /\ UNCHANGED <<treeVars, recVars>>

\* Mutant of StepBatch: after a batch the loader asks for a new pass, the
\* rest of the current pass is dropped.
StepBatch_drop ==
    /\ pc = "step"
    /\ LET ids == batches[Len(batches)][1]
           stepped == {ids[j] : j \in 1..Len(ids)}
       IN  envs' = [i \in 1..Len(envs) |->
                       IF envs[i].session_id \in stepped
                       THEN step(envs[i], "response")
                       ELSE envs[i]]
    /\ pc' = "poll"
    /\ UNCHANGED <<batch_size, exhausted, pass, cursor, passes, pollers, batches, batchPass, raised>>
    /\ UNCHANGED <<treeVars, recVars>>

\* The consumer of the batch steps the env of every row of the batch; the
\* loader then continues with the next chunk or, after the last, the next pass.
StepBatch ==
    /\ pc = "step"
    /\ LET ids == batches[Len(batches)][1]
           stepped == {ids[j] : j \in 1..Len(ids)}
       IN  envs' = [i \in 1..Len(envs) |->
                       IF envs[i].session_id \in stepped
                       THEN step(envs[i], "response")
                       ELSE envs[i]]
    /\ pc' = IF cursor < Len(pass) THEN "emit" ELSE "poll"
    /\ UNCHANGED <<batch_size, exhausted, pass, cursor, passes, pollers, batches, batchPass, raised>>
    /\ UNCHANGED <<treeVars, recVars>>

SchedNext == Construct \/ RequestPass \/ EmitBatch \/ StepBatch

\* The value None of Python, and a value that is not None.
None == <<>>

Some(x) == <<x>>

\* GameInteractionsRecorder.__init__
GameInteractionsRecorder ==
    [current_round |-> 0,
     meta |-> [round_count |-> None, completed |-> None],
     turns |-> << <<>> >>,
     keys |-> {},
     requests_counts |-> <<0>>,
     violated_requests_counts |-> <<0>>,
     successful_requests_counts |-> <<0>>]

\* EventCallRecorder.__init__
EventCallRecorder ==
    [round |-> 0,
     meta |-> [round_count |-> None, completed |-> None],
     calls |-> <<>>]

NoLogCalls ==
    [total |-> 0,
     log_next_round |-> 0, log_game_end |-> 0, log_meta |-> 0,
     event_log_next_round |-> 0, event_log_game_end |-> 0]

\* The two recorders have been constructed and no method was called.
RecInit ==
    /\ recorder = GameInteractionsRecorder
    /\ event_recorder = EventCallRecorder
    /\ log_calls = NoLogCalls

\* No loader, no tree and no BranchingGameMaster has been constructed yet;
\* the two recorders are as their constructors leave them.
Init == SchedInit /\ TreeIdle /\ RecInit

SchedSpec == Init /\ [][SchedNext]_vars

\* The iteration is one sequential loop: it keeps running until it returns.
SchedFairSpec == SchedSpec /\ WF_schedVars(SchedNext)

\* The sessions before the i-th, as a poller of their own.
Before(xs, i) == SubSeq(xs, 1, i - 1)

\* The state of the poller when the env of the i-th session raises in a pass:
\* the sessions before it have been visited, the others are untouched.
pass_until(es, ex, i) ==
    [envs |-> poll_pass(Before(es, i), Before(ex, i)).envs \o SubSeq(es, i, Len(es)),
     exhausted |-> poll_pass(Before(es, i), Before(ex, i)).exhausted
                       \o SubSeq(ex, i, Len(ex)),
     obs |-> poll_pass(Before(es, i), Before(ex, i)).obs]

\* Mutant of RequestPassRaises: the loader catches the exception and emits
\* the observations collected so far as a batch before it stops.
RequestPassRaises_salvage ==
    /\ pc = "poll"
    /\ \E i \in 1..Len(envs) :
           /\ ~exhausted[i]
           /\ envs' = pass_until(envs, exhausted, i).envs
           /\ exhausted' = pass_until(envs, exhausted, i).exhausted
           /\ batches' = IF pass_until(envs, exhausted, i).obs = <<>>
                         THEN batches
                         ELSE Append(batches,
                                     collate_fn(pass_until(envs, exhausted, i).obs))
           /\ batchPass' = IF pass_until(envs, exhausted, i).obs = <<>>
                           THEN batchPass
                           ELSE Append(batchPass, Len(passes) + 1)
           /\ raised' = i
    /\ pollers' = Append(pollers, [envs |-> envs, exhausted |-> exhausted])
    /\ pass' = <<>>
    /\ cursor' = 0
    /\ pc' = "raised"
    /\ UNCHANGED <<batch_size, passes>>
    /\ UNCHANGED <<treeVars, recVars>>

\* The loader requests one pass and the env of a session that is polled in
\* it raises: the sessions before it have been visited, the exception is not
\* caught by the poller or by the loader, the observations collected so far
\* are lost with the aborted pass and the iteration is over.
RequestPassRaises ==
    /\ pc = "poll"
    /\ \E i \in 1..Len(envs) :
           /\ ~exhausted[i]
           /\ envs' = pass_until(envs, exhausted, i).envs
           /\ exhausted' = pass_until(envs, exhausted, i).exhausted
           /\ raised' = i
    /\ pollers' = Append(pollers, [envs |-> envs, exhausted |-> exhausted])
    /\ pass' = <<>>
    /\ cursor' = 0
    /\ pc' = "raised"
    /\ UNCHANGED <<batch_size, passes, batches, batchPass>>
    /\ UNCHANGED <<treeVars, recVars>>

\* The iteration of a loader over sessions whose envs may raise.
SchedRaiseNext == Construct \/ RequestPass \/ RequestPassRaises \/ EmitBatch \/ StepBatch

SchedRaiseSpec == Init /\ [][SchedRaiseNext]_vars

(***************************************************************************)
(* Definitions used to state the properties of the batching path           *)
(***************************************************************************)

\* The envs the sessions were constructed with.
ConstructedEnvs == IF pollers = <<>> THEN envs ELSE pollers[1].envs

\* The observations a batch was collated from.
BatchObs(b) == [i \in 1..Len(b[1]) |-> <<b[1][i], b[2][i], b[3][i]>>]

\* The session ids of a list of observations.
ObsIds(obs) == [i \in 1..Len(obs) |-> obs[i][1]]

RECURSIVE Flatten(_)
\* The concatenation of a sequence of sequences.
Flatten(ss) == IF ss = <<>> THEN <<>> ELSE Head(ss) \o Flatten(Tail(ss))

\* The indices of the batches emitted for pass p, in emission order.
PassBatches(p) ==
    SelectSeq([j \in 1..Len(batches) |-> j], LAMBDA j : batchPass[j] = p)

\* Pass p has been chunked completely.
PassChunked(p) == p < Len(passes) \/ pc \in {"poll", "done"}

\* The observation the poll of this env makes reports done (or the env
\* already is done): the handle has no observation left to give.
DoneWhenPolled(env) == is_done(env) \/ env.observe_count >= env.done_after

\* Every session is fresh and allows the same number k of observations.
Uniform(k) ==
    \A i \in 1..Len(ConstructedEnvs) :
        /\ ~ConstructedEnvs[i].terminated
        /\ ConstructedEnvs[i].done_after = k

\* C1: for any finite set of sessions that each allow finitely many
\* observations the loader's iteration terminates, and when it has terminated
\* every session is marked exhausted and every session's env is done.
C1_Terminates ==
    (pc = "poll") ~>
        (/\ pc = "done"
         /\ all_exhausted(exhausted)
         /\ \A i \in 1..Len(envs) : is_done(envs[i]))

C1_Witness ==
    /\ pc = "done"
    /\ Len(envs) >= 2
    /\ Len(batches) >= 2
    /\ \E i \in 1..Len(envs) : envs[i].done_after >= 2

\* C2 (as claimed): N sessions that each allow k observations give at most
\* ceil(N*k / B) batches.
C2_Original ==
    \A k \in 0..MaxDoneAfter :
        (pc = "done" /\ Uniform(k)) =>
            Len(batches) <= CeilDiv(Len(envs) * k, batch_size)

\* C2 (amended): N sessions that each allow k observations give exactly
\* k * ceil(N / B) batches, all non-empty: every one of the k non-empty passes
\* is chunked on its own.
C2_Amended ==
    \A k \in 0..MaxDoneAfter :
        (pc = "done" /\ Uniform(k)) =>
            /\ Len(batches) = k * CeilDiv(Len(envs), batch_size)
            /\ \A j \in 1..Len(batches) : Len(batches[j][1]) >= 1

C2_Witness ==
    /\ pc = "done"
    /\ Uniform(2)
    /\ Len(envs) = 3
    /\ batch_size = 2
    /\ Len(batches) = 4

\* C3: every emitted batch is non-empty and has at most batch_size rows (in
\* each of its three parallel lists), also with fewer sessions than batch_size.
C3_BatchBounded ==
    \A j \in 1..Len(batches) :
        /\ Len(batches[j]) = 3
        /\ Len(batches[j][1]) >= 1
        /\ Len(batches[j][1]) <= batch_size
        /\ Len(batches[j][2]) = Len(batches[j][1])
        /\ Len(batches[j][3]) = Len(batches[j][1])

C3_Witness ==
    /\ batch_size >= 2
    /\ \E j \in 1..Len(batches) : Len(batches[j][1]) = batch_size
    /\ \E j \in 1..Len(batches) : Len(batches[j][1]) < batch_size

\* C4: every batch is a run of consecutive observations of one single pass, no
\* session id occurs twice in a batch, and once a pass is left all of its
\* observations have been emitted (nothing is carried over to the next pass).
C4_SinglePass ==
    /\ \A j \in 1..Len(batches) :
           LET obs == BatchObs(batches[j])
               p == batchPass[j]
           IN  /\ p \in 1..Len(passes)
               /\ \E from \in 0..Len(passes[p]) :
                      obs = SubSeq(passes[p], from + 1, from + Len(obs))
               /\ \A a, b \in 1..Len(obs) : obs[a][1] = obs[b][1] => a = b
    /\ \A p \in 1..Len(passes) :
           PassChunked(p) =>
               Len(Flatten([k \in 1..Len(PassBatches(p)) |->
                               batches[PassBatches(p)[k]][1]])) = Len(passes[p])

C4_Witness ==
    /\ Len(passes) >= 2
    /\ Len(passes[2]) >= 1
    /\ Len(passes[1]) > batch_size
    /\ Len(passes[1]) % batch_size # 0
    /\ \E j \in 1..Len(batches) : batchPass[j] = 2

\* C5: a completely chunked pass with m >= 1 observations has given exactly
\* ceil(m / B) batches, whose concatenation is the pass's observation list in
\* order, and every batch of the pass but the last has exactly B rows.
C5_PassChunks ==
    \A p \in 1..Len(passes) :
        (PassChunked(p) /\ passes[p] # <<>>) =>
            LET idx == PassBatches(p)
            IN  /\ Len(idx) = CeilDiv(Len(passes[p]), batch_size)
                /\ Flatten([k \in 1..Len(idx) |-> BatchObs(batches[idx[k]])]) = passes[p]
                /\ \A k \in 1..(Len(idx) - 1) : Len(batches[idx[k]][1]) = batch_size

C5_Witness ==
    /\ pc = "poll"
    /\ Len(pass) = 3
    /\ batch_size = 2
    /\ Len(PassBatches(Len(passes))) = 2

\* The session ids a pass over (es, ex) is to return: the input order
\* restricted to the sessions not marked exhausted and not done when polled.
ReadyIds(es, ex) ==
    LET idx == SelectSeq([i \in 1..Len(es) |-> i],
                         LAMBDA i : ~ex[i] /\ ~DoneWhenPolled(es[i]))
    IN  [j \in 1..Len(idx) |-> es[idx[j]].session_id]

\* C6: a pass returns, in input order, exactly one observation for every
\* session that is neither marked exhausted nor done when polled and none for
\* the others, and it observes no env more than once.
C6_PassOrder ==
    [][pc = "poll" =>
          /\ ObsIds(pass') = ReadyIds(envs, exhausted)
          /\ \A a, b \in 1..Len(pass') : pass'[a][1] = pass'[b][1] => a = b
          /\ \A i \in 1..Len(envs) :
                 /\ envs'[i].observe_count <= envs[i].observe_count + 1
                 /\ exhausted[i] => envs'[i] = envs[i]
          /\ \A a \in 1..Len(pass') :
                 \E i \in 1..Len(envs) :
                     /\ envs[i].session_id = pass'[a][1]
                     /\ pass'[a][3].turn = envs[i].observe_count + 1]_schedVars

C6_Witness ==
    /\ Len(passes) >= 2
    /\ Len(envs) = 3
    /\ pollers[2].exhausted[2]
    /\ ~pollers[2].exhausted[1]
    /\ ObsIds(passes[2]) = <<0, 2>>

\* C7: the exhaustion table of a constructed poller never turns an exhausted
\* session active again, and it changes only in a pass, never in a step or a
\* batch emission.
C7_ExhaustionMonotonic ==
    [][pc # "new" =>
          /\ Len(exhausted') = Len(exhausted)
          /\ \A i \in 1..Len(exhausted) : exhausted[i] => exhausted'[i]
          /\ exhausted' # exhausted => pc = "poll"]_schedVars

C7_Witness ==
    /\ pc = "step"
    /\ \E i \in 1..Len(exhausted) : exhausted[i]
    /\ \E i \in 1..Len(exhausted) : ~exhausted[i]

\* C8: right after a pass has completed, the exhaustion table is true for
\* exactly the sessions whose env is done, and no session that yielded an
\* observation in the pass is marked exhausted.
C8_ExhaustedIffDone ==
    (passes # <<>> /\ pc \in {"emit", "done"} /\ cursor = 0) =>
        /\ \A i \in 1..Len(envs) : exhausted[i] <=> is_done(envs[i])
        /\ \A a \in 1..Len(pass) :
               \A i \in 1..Len(envs) :
                   envs[i].session_id = pass[a][1] => ~exhausted[i]

C8_Witness ==
    /\ pc = "emit"
    /\ cursor = 0
    /\ Len(passes) >= 2
    /\ \E i \in 1..Len(envs) :
           exhausted[i] /\ ~pollers[Len(pollers)].exhausted[i]
                        /\ ~is_done(pollers[Len(pollers)].envs[i])
    /\ \E i \in 1..Len(envs) : ~exhausted[i]

\* C9: a pass is empty only when every session is marked exhausted after it,
\* the loader stops at the first empty pass and not before, and with all
\* sessions done at the start no batch is emitted.
C9_EmptyPassStops ==
    /\ \A p \in 1..Len(passes) :
           passes[p] = <<>> =>
               /\ p = Len(passes)
               /\ pc = "done"
               /\ all_exhausted(exhausted)
    /\ pc = "done" =>
           /\ passes # <<>>
           /\ passes[Len(passes)] = <<>>
           /\ all_exhausted(exhausted)
    /\ (\A i \in 1..Len(ConstructedEnvs) : is_done(ConstructedEnvs[i])) =>
           batches = <<>>

C9_Witness ==
    /\ pc = "done"
    /\ Len(envs) = 3
    /\ \A i \in 1..Len(envs) : is_done(ConstructedEnvs[i])
    /\ batches = <<>>
    /\ Len(passes) = 1

\* C10: one fresh session that allows k observations gives, for every batch
\* size, exactly k batches of one row each, with turn counters 1, ..., k.
C10_SingleSession ==
    (pc = "done" /\ Len(envs) = 1 /\ ~is_done(ConstructedEnvs[1])) =>
        LET e == ConstructedEnvs[1]
        IN  batches = [t \in 1..e.done_after |->
                          << <<e.session_id>>,
                             <<player_by_agent_id(e)>>,
                             << [turn |-> t, session |-> e.session_id] >> >>]

C10_Witness ==
    /\ pc = "done"
    /\ Len(envs) = 1
    /\ envs[1].done_after = 3
    /\ batch_size = 5
    /\ Len(batches) = 3

\* C11: a loader with batch size B <= 0 is rejected at construction (and only
\* such a loader is): no pass is requested and no env is observed.
C11_RejectsNonPositive ==
    /\ (pc # "new" /\ batch_size <= 0) =>
           /\ pc = "rejected"
           /\ pollers = <<>>
           /\ passes = <<>>
           /\ batches = <<>>
           /\ \A i \in 1..Len(envs) : envs[i].observe_count = 0 /\ ~exhausted[i]
    /\ pc = "rejected" => batch_size <= 0

C11_Witness ==
    /\ pc = "rejected"
    /\ batch_size = 0
    /\ Len(envs) = 2
    /\ \A i \in 1..Len(envs) : ~is_done(envs[i])

\* C12: when an env raises in a pass, the pass is aborted at that session
\* (the sessions after it are not visited), no batch is emitted for the
\* aborted pass, and the iteration is over: nothing is polled again.
C12_RaisePropagates ==
    [][/\ pc # "raised"
       /\ pc' = "raised" =>
              /\ raised' \in 1..Len(envs)
              /\ batches' = batches
              /\ passes' = passes
              /\ \A j \in 1..Len(batches') : batchPass'[j] <= Len(passes')
              /\ \A i \in raised'..Len(envs) :
                     envs'[i] = envs[i] /\ exhausted'[i] = exhausted[i]]_schedVars

C12_Witness ==
    /\ pc = "raised"
    /\ raised = 2
    /\ Len(batches) >= 1
    /\ envs[1].observe_count > pollers[Len(pollers)].envs[1].observe_count
    /\ ~exhausted[1]


\* ---------------------------------------------------------------------------
\* Part 2: the branching path (playpen/branching).
\* Objects are kept in sequences; an object's identity is its index, so that
\* "is" and the identity-based "in" of the code compare indices.
\* ---------------------------------------------------------------------------

\* Largest number of tree nodes in the free-standing node pool.
MaxNodes == 3

\* Largest number of connect_to calls made on the node pool.
MaxConnects == 3

InSeq(x, xs) == \E k \in 1..Len(xs) : xs[k] = x

\* The state of a freshly created game master (an opaque episode handle).
NewGame == [turn |-> 0, done |-> FALSE, instance |-> 0]

\* GameTreeNode.__init__: no branches, no parent, no tags. The attributes that
\* only a ResponseTreeNode has are blank.
GameTreeNode(game_master) ==
    [kind |-> "game", game_master |-> game_master, branches |-> <<>>,
     parent |-> 0, tags |-> {},
     player |-> -1, context |-> [turn |-> -1], response |-> "",
     done |-> FALSE, info |-> [turn |-> -1]]

\* Mutant of wraps: game masters with equal contents count as the same.
wraps_equal(node, game_master) == gms[node.game_master] = gms[game_master]

\* GameTreeNode.wraps: object identity of the wrapped game master.
wraps(node, game_master) == node.game_master = game_master

\* connect_to without the membership check.
connect_to_unchecked(ns, self, branch_node) ==
    [ns EXCEPT ![self].branches = Append(@, branch_node),
               ![branch_node].parent = self]

\* GameTreeNode.connect_to, as the node store after self.connect_to(branch_node).
connect_to(ns, self, branch_node) ==
    IF InSeq(branch_node, ns[self].branches)
    THEN ns
    ELSE [ns EXCEPT ![self].branches = Append(@, branch_node),
                    ![branch_node].parent = self]

\* A caller creates a node around a new game master.
NewNode ==
    /\ Len(nodes) < MaxNodes
    /\ gms' = Append(gms, NewGame)
    /\ nodes' = Append(nodes, GameTreeNode(Len(gms) + 1))
    /\ call' = [op |-> "new", parent |-> 0, child |-> Len(nodes) + 1,
                seq |-> call.seq, args |-> <<>>, factor |-> 1]
    /\ UNCHANGED <<bpc, factor, criteria, bdone, active, steps, round, views>>
    /\ UNCHANGED <<schedVars, recVars>>

\* A caller connects any node to any node, itself included.
ConnectTo ==
    /\ call.seq < MaxConnects
    /\ \E self \in 1..Len(nodes), branch_node \in 1..Len(nodes) :
           /\ nodes' = connect_to(nodes, self, branch_node)
           /\ call' = [op |-> "connect_to", parent |-> self,
                       child |-> branch_node, seq |-> call.seq + 1,
                       args |-> <<>>, factor |-> 1]
    /\ UNCHANGED <<gms, bpc, factor, criteria, bdone, active, steps, round, views>>
    /\ UNCHANGED <<schedVars, recVars>>

NodeNext == NewNode \/ ConnectTo

\* The node pool starts empty.
NodeSpec == Init /\ [][NodeNext]_vars

\* The nodes reachable from node n along at most k child links.
RECURSIVE Within(_, _)
Within(n, k) ==
    IF k = 0 THEN {n}
    ELSE LET near == Within(n, k - 1)
         IN  near \cup UNION {{nodes[m].branches[j] :
                                  j \in 1..Len(nodes[m].branches)} : m \in near}

\* C13: connecting a child that the parent already holds leaves the parent's
\* child list as it was (same length, contents and order), and nothing else of
\* the node graph changes either.
C13_ConnectIdempotent ==
    [][(/\ call'.op = "connect_to"
        /\ InSeq(call'.child, nodes[call'.parent].branches))
       => /\ nodes'[call'.parent].branches = nodes[call'.parent].branches
          /\ nodes' = nodes]_vars

\* A second connect_to of the second child of a parent with two children.
C13_Witness ==
    /\ call.op = "connect_to"
    /\ Len(nodes[call.parent].branches) = 2
    /\ nodes[call.parent].branches[1] = call.child
    /\ call.parent # call.child

\* Node n lies on a cycle of child links.
OnCycle(n) ==
    \E j \in 1..Len(nodes[n].branches) :
        n \in Within(nodes[n].branches[j], Len(nodes))

\* The nodes whose child list holds node n.
Holders(n) == {m \in 1..Len(nodes) : InSeq(n, nodes[m].branches)}

\* C14: after any sequence of connect_to calls the node graph is a tree: no
\* node lies on a cycle, and every node that is some node's child is in the
\* child list of exactly one node, the one its parent reference points to.
C14_IsTree ==
    \A n \in 1..Len(nodes) :
        /\ ~OnCycle(n)
        /\ (Holders(n) # {} \/ nodes[n].parent # 0)
               => Holders(n) = {nodes[n].parent}

\* ---------------------------------------------------------------------------
\* The episode handle (GameMaster) behind a tree node. Its contents are opaque
\* to the branching code; the handle here is a two-player game in which the
\* players alternate, a response "stop" ends the episode and the episode ends
\* by itself after MaxTurns responses.
\* ---------------------------------------------------------------------------

\* Number of responses after which an episode is over.
MaxTurns == 6

\* Largest branching factor tried.
MaxFactor == 2

\* Largest number of game masters (the root and all its copies) created.
MaxMasters == 22

\* Largest number of "stop" responses the players give in one run.
MaxStops == 1

\* Largest number of game masters in a run with get_active_tree() calls.
MaxViewMasters == 7

Responses == {"go", "stop"}

Criteria == {"always", "player_0", "player_1"}

\* GameMaster.observe: the current player and its context.
observe(game_master) ==
    [player |-> game_master.turn % 2, context |-> [turn |-> game_master.turn]]

\* GameMaster.step(response): the stepped game master and what step returns.
gm_step(game_master, response) ==
    LET turn == game_master.turn + 1
        done == game_master.done \/ response = "stop" \/ turn >= MaxTurns
    IN  [game_master |-> [game_master EXCEPT !.turn = turn, !.done = done],
         done |-> done,
         info |-> [turn |-> turn]]

\* GameMaster.setup(**game_instance): the episode starts over on the instance.
gm_setup(game_master, game_instance) ==
    [turn |-> 0, done |-> FALSE, instance |-> game_instance]

\* The branching_criteria callables: the default branches at every step, the
\* others branch only when the named player is about to respond.
branching_criteria(c, game_master) ==
    \/ c = "always"
    \/ c = "player_0" /\ observe(game_master).player = 0
    \/ c = "player_1" /\ observe(game_master).player = 1

\* Mutant of current_branching_factor: the criteria are ignored.
current_branching_factor_always(f, c, game_master) == f

\* player.py line 40
current_branching_factor(f, c, game_master) ==
    IF branching_criteria(c, game_master) THEN f ELSE 1

RECURSIVE forks_before(_, _, _, _, _)
\* The number of branches made for the parent masters before the i-th.
forks_before(gs, parent_masters, f, c, i) ==
    IF i <= 1 THEN 0
    ELSE forks_before(gs, parent_masters, f, c, i - 1)
             + current_branching_factor(f, c, gs[parent_masters[i - 1]])

\* The number of branches branching_response makes for parent_masters.
forks(gs, parent_masters, f, c) ==
    forks_before(gs, parent_masters, f, c, Len(parent_masters) + 1)

\* Mutant of branching_response: the parent master is not copied.
branching_response_nocopy(gs, parent_masters, f, c, sampled) ==
    [i \in 1..Len(parent_masters) |->
        [k \in 1..current_branching_factor(f, c, gs[parent_masters[i]]) |->
            [parent_master   |-> parent_masters[i],
             parent_player   |-> observe(gs[parent_masters[i]]).player,
             parent_context  |-> observe(gs[parent_masters[i]]).context,
             branch_master   |-> parent_masters[i],
             branch_response |-> sampled[forks_before(gs, parent_masters, f, c, i) + k]]]]

\* BranchingPlayer.branching_response: one list of BranchingSteps per parent
\* master. The k-th branch made gets the identity Len(gs) + k and the k-th of
\* the sampled responses.
branching_response(gs, parent_masters, f, c, sampled) ==
    [i \in 1..Len(parent_masters) |->
        [k \in 1..current_branching_factor(f, c, gs[parent_masters[i]]) |->
            [parent_master   |-> parent_masters[i],
             parent_player   |-> observe(gs[parent_masters[i]]).player,
             parent_context  |-> observe(gs[parent_masters[i]]).context,
             branch_master   |-> Len(gs) + forks_before(gs, parent_masters, f, c, i) + k,
             branch_response |-> sampled[forks_before(gs, parent_masters, f, c, i) + k]]]]

\* The game masters after branching_response: each branch master is a
\* deepcopy of its parent master.
deepcopies(gs, all_branching_steps) ==
    gs \o [k \in 1..Len(Flatten(all_branching_steps)) |->
              gs[Flatten(all_branching_steps)[k].parent_master]]

\* ResponseTreeNode.__init__
ResponseTreeNode(game_master, player, context, response, done, info) ==
    [kind |-> "response", game_master |-> game_master, branches |-> <<>>,
     parent |-> 0, tags |-> {},
     player |-> player, context |-> context, response |-> response,
     done |-> done, info |-> info]

RECURSIVE find_node_from(_, _, _)
RECURSIVE find_node_among(_, _, _, _)
\* GameTree.find_node._find_node: the first node in depth-first order that
\* wraps target_master, 0 for None.
find_node_from(ns, node, target_master) ==
    IF wraps(ns[node], target_master) THEN node
    ELSE find_node_among(ns, ns[node].branches, 1, target_master)

\* The loop over the branches of a node, from the k-th branch on.
find_node_among(ns, branches, k, target_master) ==
    IF k > Len(branches) THEN 0
    ELSE LET target_node == find_node_from(ns, branches[k], target_master)
         IN  IF target_node # 0 THEN target_node
             ELSE find_node_among(ns, branches, k + 1, target_master)

\* GameTree.find_node; the root is the first node made.
find_node(ns, target_master) == find_node_from(ns, 1, target_master)

RECURSIVE find_leaves_from(_, _)
RECURSIVE find_leaves_among(_, _, _)
\* GameTree.find_leaves._find_leaves
find_leaves_from(ns, node) ==
    IF ns[node].branches = <<>> THEN <<node>>
    ELSE find_leaves_among(ns, ns[node].branches, 1)

find_leaves_among(ns, branches, k) ==
    IF k > Len(branches) THEN <<>>
    ELSE find_leaves_from(ns, branches[k]) \o find_leaves_among(ns, branches, k + 1)

\* Mutant of find_leaves: the leaves in the opposite order.
find_leaves_reversed(ns) ==
    LET leaves == find_leaves_from(ns, 1)
    IN  [k \in 1..Len(leaves) |-> leaves[Len(leaves) + 1 - k]]

\* GameTree.find_leaves
find_leaves(ns) == find_leaves_from(ns, 1)

\* Mutant of add_branch_to: a candidate without a parent node is skipped.
add_branch_to_silent(ns, response, done, info) ==
    LET parent_node == find_node(ns, response.parent_master)
    IN  IF parent_node = 0
        THEN [raised |-> FALSE, nodes |-> ns]
        ELSE [raised |-> FALSE,
              nodes |-> connect_to(
                  Append(ns, ResponseTreeNode(response.branch_master,
                                              response.parent_player,
                                              response.parent_context,
                                              response.branch_response, done, info)),
                  parent_node, Len(ns) + 1)]

\* BranchingCandidate.add_branch_to: the assertion raises when no node wraps
\* the parent master; otherwise a new ResponseTreeNode is connected to it.
add_branch_to(ns, response, done, info) ==
    LET parent_node == find_node(ns, response.parent_master)
    IN  IF parent_node = 0
        THEN [raised |-> TRUE, nodes |-> ns]
        ELSE [raised |-> FALSE,
              nodes |-> connect_to(
                  Append(ns, ResponseTreeNode(response.branch_master,
                                              response.parent_player,
                                              response.parent_context,
                                              response.branch_response, done, info)),
                  parent_node, Len(ns) + 1)]

RECURSIVE applied(_, _, _)
\* The game masters after the first k of the branching steps were applied
\* (BranchingStep.apply: branch_master.step(branch_response)).
applied(gs, branching_steps, k) ==
    IF k = 0 THEN gs
    ELSE [applied(gs, branching_steps, k - 1)
              EXCEPT ![branching_steps[k].branch_master] =
                  gm_step(@, branching_steps[k].branch_response).game_master]

\* What the k-th apply() returns.
apply(gs, branching_steps, k) ==
    gm_step(applied(gs, branching_steps, k - 1)[branching_steps[k].branch_master],
            branching_steps[k].branch_response)

\* master.py lines 98-106: the BranchingCandidates, in processing order. The
\* done value is stored in the info of each.
candidates(gs, all_branching_steps) ==
    LET flat == Flatten(all_branching_steps)
    IN  [k \in 1..Len(flat) |->
            LET result == apply(gs, flat, k)
            IN  [response |-> flat[k],
                 done     |-> result.done,
                 info     |-> [turn |-> result.info.turn, done |-> result.done]]]

\* Mutant of all_infos: the infos of all groups in one group.
all_infos_flat(gs, all_branching_steps) ==
    <<[k \in 1..Len(Flatten(all_branching_steps)) |->
          candidates(gs, all_branching_steps)[k].info]>>

\* master.py lines 96-106: the infos, grouped like the branching steps.
all_infos(gs, all_branching_steps) ==
    LET cands == candidates(gs, all_branching_steps)
    IN  [i \in 1..Len(all_branching_steps) |->
            [k \in 1..Len(all_branching_steps[i]) |->
                cands[Len(Flatten(SubSeq(all_branching_steps, 1, i - 1))) + k].info]]

\* Mutant of overall_done: one finished candidate is enough.
overall_done_any(cands) ==
    cands = <<>> \/ \E k \in 1..Len(cands) : cands[k].done

\* master.py line 108: all([candidate.done for candidate in candidates])
overall_done(cands) == \A k \in 1..Len(cands) : cands[k].done

RECURSIVE add_branches_pruning(_, _, _, _)
\* Mutant of add_branches: a finished candidate does not become active.
add_branches_pruning(ns, act, cands, k) ==
    IF k > Len(cands) THEN [nodes |-> ns, active |-> act, raised |-> 0]
    ELSE LET added == add_branch_to(ns, cands[k].response, cands[k].done, cands[k].info)
         IN  IF added.raised
             THEN [nodes |-> ns, active |-> act, raised |-> k]
             ELSE add_branches_pruning(
                      added.nodes,
                      IF cands[k].done THEN act
                      ELSE Append(act, cands[k].response.branch_master),
                      cands, k + 1)

RECURSIVE add_branches(_, _, _, _)
\* master.py lines 111-113, from the k-th candidate on: each candidate is
\* added to the tree and its branch master becomes active. The loop ends
\* where add_branch_to raises; raised is the position of that candidate.
add_branches(ns, act, cands, k) ==
    IF k > Len(cands) THEN [nodes |-> ns, active |-> act, raised |-> 0]
    ELSE LET added == add_branch_to(ns, cands[k].response, cands[k].done, cands[k].info)
         IN  IF added.raised
             THEN [nodes |-> ns, active |-> act, raised |-> k]
             ELSE add_branches(added.nodes,
                               Append(act, cands[k].response.branch_master),
                               cands, k + 1)

\* Mutant of branching_step: each candidate is attached right after it was
\* applied, so that a raise leaves the later candidates unapplied.
branching_step_interleaved(gs, ns, act, all_branching_steps) ==
    LET cands == candidates(gs, all_branching_steps)
        added == add_branches(ns, <<>>, cands, 1)
    IN  [gms      |-> applied(gs, Flatten(all_branching_steps),
                              IF added.raised # 0 THEN added.raised ELSE Len(cands)),
         done     |-> overall_done(cands),
         nodes    |-> added.nodes,
         active   |-> added.active,
         raised   |-> added.raised,
         candidates |-> cands,
         returned |-> IF added.raised # 0 THEN <<>>
                      ELSE <<overall_done(cands), all_infos(gs, all_branching_steps)>>]

\* Mutant of branching_step: the active masters are not reset.
branching_step_keep(gs, ns, act, all_branching_steps) ==
    LET cands == candidates(gs, all_branching_steps)
        added == add_branches(ns, act, cands, 1)
    IN  [gms      |-> applied(gs, Flatten(all_branching_steps), Len(cands)),
         done     |-> overall_done(cands),
         nodes    |-> added.nodes,
         active   |-> added.active,
         raised   |-> added.raised,
         candidates |-> cands,
         returned |-> IF added.raised # 0 THEN <<>>
                      ELSE <<overall_done(cands), all_infos(gs, all_branching_steps)>>]

\* BranchingGameMaster.step: the game masters, _done, the tree nodes and
\* _active_parent_masters after the call, and the value returned (none when
\* the call raised). act is _active_parent_masters before the call.
branching_step(gs, ns, act, all_branching_steps) ==
    LET cands == candidates(gs, all_branching_steps)
        added == add_branches(ns, <<>>, cands, 1)
    IN  [gms      |-> applied(gs, Flatten(all_branching_steps), Len(cands)),
         done     |-> overall_done(cands),
         nodes    |-> added.nodes,
         active   |-> added.active,
         raised   |-> added.raised,
         candidates |-> cands,
         returned |-> IF added.raised # 0 THEN <<>>
                      ELSE <<overall_done(cands), all_infos(gs, all_branching_steps)>>]

\* The "stop" responses given so far.
StopsGiven ==
    Cardinality({n \in 1..Len(nodes) : nodes[n].response = "stop"})

\* BranchingGameMaster.__init__; a branching factor that is not positive
\* fails the assertion before any field is set.
init_master(f, c) ==
    /\ IF f > 0
       THEN /\ gms' = <<NewGame>>
            /\ nodes' = <<GameTreeNode(1)>>
            /\ active' = <<1>>
            /\ bdone' = FALSE
            /\ factor' = f
            /\ criteria' = c
            /\ bpc' = "observe"
       ELSE /\ bpc' = "rejected"
            /\ UNCHANGED <<gms, nodes, active, bdone, factor, criteria>>
    /\ call' = [call EXCEPT !.op = "init", !.factor = f]
    /\ UNCHANGED <<steps, round, views>>
    /\ UNCHANGED <<schedVars, recVars>>

\* A caller constructs a BranchingGameMaster around a new game master.
NewBranchingGameMaster ==
    /\ bpc = "idle"
    /\ \E f \in 0..MaxFactor, c \in Criteria : init_master(f, c)

RECURSIVE StopChoices(_, _)
\* The sets of at most r of the positions 1..n: where the players say "stop".
StopChoices(n, r) ==
    IF r <= 0 THEN {{}}
    ELSE {{}} \cup UNION {{chosen \cup {k} : k \in 1..n} : chosen \in StopChoices(n, r - 1)}

\* Runs in which get_active_tree() has been called are followed up to
\* MaxViewMasters game masters, all others up to MaxMasters.
MasterLimit == IF views = <<>> THEN MaxMasters ELSE MaxViewMasters

\* The parent masters a driving loop hands to the player it got from
\* observe(): the active masters, or only those of them that are not finished.
DriverParents(policy) ==
    IF policy = "all" THEN active
    ELSE SelectSeq(active, LAMBDA g : ~gms[g].done)

\* One turn of the driving loop up to the response: observe() returns
\* branching_response and the active masters, and the loop calls the former
\* on the latter. The players' responses are sampled freely.
ObserveAndRespond ==
    /\ bpc = "observe"
    /\ \E policy \in {"all", "unfinished"} :
         /\ Len(gms) + forks(gms, DriverParents(policy), factor, criteria) <= MasterLimit
         /\ \E stops \in StopChoices(forks(gms, DriverParents(policy), factor, criteria),
                                     MaxStops - StopsGiven) :
              /\ steps' = branching_response(
                     gms, DriverParents(policy), factor, criteria,
                     [k \in 1..forks(gms, DriverParents(policy), factor, criteria) |->
                         IF k \in stops THEN "stop" ELSE "go"])
         /\ call' = [call EXCEPT !.op = "branching_response",
                                 !.args = DriverParents(policy)]
    /\ gms' = deepcopies(gms, steps')
    /\ bpc' = "step"
    /\ UNCHANGED <<nodes, factor, criteria, bdone, active, round, views>>
    /\ UNCHANGED <<schedVars, recVars>>

\* The second half of the turn: step() is called with the branching steps.
\* round records what the call was given and what it did.
BranchingGameMasterStep ==
    /\ bpc = "step"
    /\ LET stepped == branching_step(gms, nodes, active, steps)
       IN  /\ gms' = stepped.gms
           /\ nodes' = stepped.nodes
           /\ bdone' = stepped.done
           /\ active' = stepped.active
           /\ round' = [before     |-> active,
                        was_done   |-> bdone,
                        nodes      |-> nodes,
                        gms        |-> gms,
                        steps      |-> steps,
                        candidates |-> stepped.candidates,
                        raised     |-> stepped.raised,
                        returned   |-> stepped.returned]
    /\ steps' = <<>>
    /\ call' = [call EXCEPT !.op = "step", !.seq = @ + 1]
    /\ bpc' = IF round'.raised # 0 THEN "error"
              ELSE IF bdone' THEN "done" ELSE "observe"
    /\ UNCHANGED <<factor, criteria, views>>
    /\ UNCHANGED <<schedVars, recVars>>

BranchNext == NewBranchingGameMaster \/ ObserveAndRespond \/ BranchingGameMasterStep

BranchSpec == Init /\ [][BranchNext]_vars

\* A driving loop hands branching_response a list in which the j-th active
\* master is replaced by a copy the loop made itself: no tree node wraps it.
ObserveAndRespondForeign ==
    /\ bpc = "observe"
    /\ \E j \in 1..Len(active) :
         LET copied  == Append(gms, gms[active[j]])
             parents == [active EXCEPT ![j] = Len(gms) + 1]
         IN  /\ Len(copied) + forks(copied, parents, factor, criteria) <= MaxMasters
             /\ steps' = branching_response(
                    copied, parents, factor, criteria,
                    [k \in 1..forks(copied, parents, factor, criteria) |-> "go"])
             /\ gms' = deepcopies(copied, steps')
             /\ call' = [call EXCEPT !.op = "branching_response", !.args = parents]
    /\ bpc' = "step"
    /\ UNCHANGED <<nodes, factor, criteria, bdone, active, round, views>>
    /\ UNCHANGED <<schedVars, recVars>>

BranchForeignNext ==
    \/ NewBranchingGameMaster
    \/ ObserveAndRespond
    \/ ObserveAndRespondForeign
    \/ BranchingGameMasterStep

BranchForeignSpec == Init /\ [][BranchForeignNext]_vars

\* step() has just been called / has just returned.
Stepped == call.op = "step"

Returned == Stepped /\ round.raised = 0

\* The parent masters of the groups of branching steps.
GroupParents(all_branching_steps) ==
    [i \in 1..Len(all_branching_steps) |-> all_branching_steps[i][1].parent_master]

\* The node of ns that wraps game master g.
NodeOf(ns, g) == CHOOSE n \in 1..Len(ns) : ns[n].game_master = g

\* Whether the criteria select the player who responds at turn t.
Selected(t) ==
    \/ criteria = "always"
    \/ criteria = "player_0" /\ t % 2 = 0
    \/ criteria = "player_1" /\ t % 2 = 1

\* The effective fork count of a leaf whose episode is at turn t.
EffectiveForks(t) == IF Selected(t) THEN factor ELSE 1

LeafSet(ns) == {n \in 1..Len(ns) : ns[n].branches = <<>>}

RECURSIVE Pow(_, _)
Pow(b, e) == IF e = 0 THEN 1 ELSE b * Pow(b, e - 1)

\* C15: when step() is given the branching steps made for the active leaves,
\* the node of each active leaf gains exactly its effective fork count of
\* children, all of them new ResponseTreeNodes, and there are as many active
\* masters afterwards as there were candidates.
C15_ChildrenPerLeaf ==
    (Returned /\ GroupParents(round.steps) = round.before) =>
        /\ \A i \in 1..Len(round.before) :
             LET n == NodeOf(round.nodes, round.before[i])
             IN  /\ Len(nodes[n].branches) - Len(round.nodes[n].branches)
                        = EffectiveForks(round.gms[round.before[i]].turn)
                 /\ \A j \in 1..Len(nodes[n].branches) :
                        \/ j <= Len(round.nodes[n].branches)
                        \/ /\ nodes[n].branches[j] > Len(round.nodes)
                           /\ nodes[nodes[n].branches[j]].kind = "response"
                           /\ nodes[nodes[n].branches[j]].parent = n
        /\ Len(active) = Len(round.candidates)

\* One active leaf, factor 2, branching always: 2 children under the root.
C15_Witness ==
    /\ Returned
    /\ call.seq = 1
    /\ factor = 2
    /\ criteria = "always"
    /\ round.before = <<1>>
    /\ Len(nodes[1].branches) = 2
    /\ Len(active) = 2

\* The turns before turn t at which the selected player responds.
SelectedTurns(t) == Cardinality({u \in 0..(t - 1) : Selected(u)})

\* Every leaf of the tree has been stepped in every round so far.
AllLeavesStepped(ns, gs, t) ==
    \A n \in LeafSet(ns) : gs[ns[n].game_master].turn = t

\* C16: with criteria that select one of the two alternating players, and
\* every leaf taken along in every round, a step multiplies the number of
\* leaves by the factor when the selected player responds and leaves it
\* unchanged otherwise; after the selected player's three turns with factor 2
\* there are 8 leaves.
C16_LeafGrowth ==
    (/\ Returned
     /\ criteria \in {"player_0", "player_1"}
     /\ AllLeavesStepped(nodes, gms, call.seq)) =>
        /\ Cardinality(LeafSet(nodes))
               = Cardinality(LeafSet(round.nodes)) * EffectiveForks(call.seq - 1)
        /\ Cardinality(LeafSet(nodes)) = Pow(factor, SelectedTurns(call.seq))
        /\ (factor = 2 /\ SelectedTurns(call.seq) = 3)
               => Cardinality(LeafSet(nodes)) = 8

\* The second player is selected and has responded three times: 8 leaves.
C16_Witness ==
    /\ Returned
    /\ factor = 2
    /\ criteria = "player_1"
    /\ call.seq = 6
    /\ AllLeavesStepped(nodes, gms, 6)
    /\ Cardinality(LeafSet(nodes)) = 8
    /\ Cardinality(LeafSet(round.nodes)) = 4

\* BranchingGameMaster.is_done
branching_is_done == bdone

\* C17: after step(), the overall done value, returned and reported by
\* is_done(), is true exactly if every candidate of the call was done when
\* applied.
C17_DoneIffAllDone ==
    Stepped =>
        /\ branching_is_done <=>
               \A k \in 1..Len(round.candidates) :
                   gms[round.candidates[k].response.branch_master].done
        /\ round.raised = 0 => round.returned[1] = branching_is_done

\* Of two candidates one is done and one is not: overall not done.
C17_Witness ==
    /\ Returned
    /\ ~branching_is_done
    /\ round.returned[1] = FALSE
    /\ Len(round.candidates) = 2
    /\ round.candidates[1].done
    /\ ~round.candidates[2].done

\* C18: after step(), the active masters are the branch masters of the
\* candidates in processing order, and no master active before is among them.
C18_ActiveReplaced ==
    Returned =>
        /\ active = [k \in 1..Len(Flatten(round.steps)) |->
                        Flatten(round.steps)[k].branch_master]
        /\ \A i \in 1..Len(round.before) : ~InSeq(round.before[i], active)

\* Two parents with effective fork count 1 each are replaced by their branches.
C18_Witness ==
    /\ Returned
    /\ factor = 2
    /\ criteria = "player_1"
    /\ Len(round.before) = 2
    /\ Len(round.steps) = 2
    /\ Len(round.steps[1]) = 1
    /\ Len(round.steps[2]) = 1
    /\ active = <<round.steps[1][1].branch_master, round.steps[2][1].branch_master>>

\* The candidates step() added to the tree before it returned or raised.
Processed ==
    IF round.raised = 0 THEN Len(round.candidates) ELSE round.raised - 1

\* C19: step() keeps finished branches: a processed candidate that was done
\* is active afterwards, and unless the driving loop drops masters from the
\* list, branching_response copies every active master, finished or not, and
\* step() steps those copies.
C19_NoPruning ==
    /\ [](Stepped =>
            /\ \A k \in 1..Processed :
                   round.candidates[k].done =>
                       InSeq(round.candidates[k].response.branch_master, active)
            /\ \A k \in 1..Len(round.candidates) :
                   gms[round.candidates[k].response.branch_master].turn
                       = round.gms[round.candidates[k].response.parent_master].turn + 1)
    /\ [][(bpc = "observe" /\ bpc' = "step" /\ Len(steps') = Len(active)) =>
              \A i \in 1..Len(active) :
                  /\ steps'[i] # <<>>
                  /\ \A k \in 1..Len(steps'[i]) :
                         /\ steps'[i][k].parent_master = active[i]
                         /\ steps'[i][k].branch_master > Len(gms)
                         /\ gms'[steps'[i][k].branch_master] = gms[active[i]]]_vars

\* A finished master was handed on, copied and stepped, next to an unfinished one.
C19_Witness ==
    /\ Returned
    /\ ~bdone
    /\ \E k \in 1..Len(round.candidates) :
           /\ round.gms[round.candidates[k].response.parent_master].done
           /\ round.candidates[k].done
           /\ InSeq(round.candidates[k].response.branch_master, active)
           /\ InSeq(round.candidates[k].response.parent_master, round.before)

\* No node of ns wraps game master g.
Unwrapped(ns, g) == \A n \in 1..Len(ns) : ns[n].game_master # g

\* C20: step() raises exactly if a candidate's parent master is wrapped by no
\* node of the tree; it raises at the first such candidate, returns nothing,
\* and no node is made for that candidate.
C20_MissingParentRaises ==
    Stepped =>
        /\ round.raised # 0 <=>
               \E k \in 1..Len(round.candidates) :
                   Unwrapped(round.nodes, round.candidates[k].response.parent_master)
        /\ round.raised # 0 =>
               /\ bpc = "error"
               /\ round.returned = <<>>
               /\ Unwrapped(round.nodes,
                            round.candidates[round.raised].response.parent_master)
               /\ \A k \in 1..(round.raised - 1) :
                      ~Unwrapped(round.nodes, round.candidates[k].response.parent_master)
               /\ Unwrapped(nodes, round.candidates[round.raised].response.branch_master)
               /\ Len(nodes) = Len(round.nodes) + round.raised - 1

\* The second of two candidates has a parent outside the tree; the first was
\* attached before the call raised.
C20_Witness ==
    /\ bpc = "error"
    /\ round.raised = 2
    /\ Len(active) = 1
    /\ Len(nodes) = Len(round.nodes) + 1

\* branching_response has just returned the branching steps.
Responded == call.op = "branching_response"

\* C21: step() returns one group of infos per group of branching steps, in
\* the same order, one info per branching step of the group in the same
\* order, and each info has the done value that applying its step returned.
C21_InfosAligned ==
    Returned =>
        /\ Len(round.returned[2]) = Len(round.steps)
        /\ \A i \in 1..Len(round.steps) :
             /\ Len(round.returned[2][i]) = Len(round.steps[i])
             /\ \A k \in 1..Len(round.steps[i]) :
                  LET result ==
                          gm_step(round.gms[round.steps[i][k].branch_master],
                                  round.steps[i][k].branch_response)
                  IN  /\ round.returned[2][i][k].done = result.done
                      /\ round.returned[2][i][k].turn = result.info.turn
                      /\ result.done = (round.steps[i][k].branch_response = "stop"
                                            \/ result.info.turn >= MaxTurns
                                            \/ round.gms[round.steps[i][k].parent_master].done)

\* Two groups of two; only the second step of the first group ended its episode.
C21_Witness ==
    /\ Returned
    /\ Len(round.steps) = 2
    /\ Len(round.steps[1]) = 2
    /\ Len(round.steps[2]) = 2
    /\ ~round.returned[2][1][1].done
    /\ round.returned[2][1][2].done
    /\ ~round.returned[2][2][1].done
    /\ ~round.returned[2][2][2].done

\* C22: branching_response returns one list per parent master, in input order;
\* the list has factor steps if the criteria hold for the parent and one
\* otherwise, and every step in it names that parent and the player and the
\* context observed on it.
C22_OneListPerParent ==
    Responded =>
        /\ Len(steps) = Len(call.args)
        /\ \A i \in 1..Len(call.args) :
             /\ Len(steps[i]) = EffectiveForks(gms[call.args[i]].turn)
             /\ \A k \in 1..Len(steps[i]) :
                  /\ steps[i][k].parent_master = call.args[i]
                  /\ steps[i][k].parent_player = gms[call.args[i]].turn % 2
                  /\ steps[i][k].parent_context = [turn |-> gms[call.args[i]].turn]

\* Two parents for which the criteria hold, two steps for each.
C22_Witness ==
    /\ Responded
    /\ criteria = "player_1"
    /\ factor = 2
    /\ Len(call.args) = 2
    /\ call.args[1] # call.args[2]
    /\ Len(steps[1]) = 2
    /\ Len(steps[2]) = 2
    /\ steps[2][1].parent_master = call.args[2]

\* C23: the nodes of the tree wrap pairwise distinct game masters; every
\* branch master is a new copy, different from its parent master, from every
\* other branch master and from every master already in the tree; stepping
\* the branches leaves the parent masters as they were.
C23_NoAliasing ==
    /\ \A n, m \in 1..Len(nodes) :
           n # m => nodes[n].game_master # nodes[m].game_master
    /\ Responded =>
           \A k \in 1..Len(Flatten(steps)) :
               /\ Flatten(steps)[k].branch_master # Flatten(steps)[k].parent_master
               /\ Unwrapped(nodes, Flatten(steps)[k].branch_master)
               /\ ~InSeq(Flatten(steps)[k].branch_master, active)
               /\ gms[Flatten(steps)[k].branch_master]
                      = gms[Flatten(steps)[k].parent_master]
               /\ \A j \in 1..Len(Flatten(steps)) :
                      j # k => Flatten(steps)[j].branch_master
                                   # Flatten(steps)[k].branch_master
    /\ Stepped =>
           \A k \in 1..Len(round.candidates) :
               gms[round.candidates[k].response.parent_master]
                   = round.gms[round.candidates[k].response.parent_master]

\* Two parents with fork count 1 each got a branch of their own.
C23_Witness ==
    /\ Returned
    /\ criteria = "player_1"
    /\ factor = 2
    /\ call.seq = 3
    /\ Len(round.steps) = 2
    /\ Len(round.steps[1]) = 1
    /\ Len(nodes) = 6
    /\ gms[round.steps[1][1].branch_master] # gms[round.steps[1][1].parent_master]

\* ---------------------------------------------------------------------------
\* BranchingGameMaster.get_active_tree
\* ---------------------------------------------------------------------------

\* Largest number of get_active_tree() calls in one run.
MaxViews == 2

\* master.py lines 120-124: the leaves whose game master is active.
active_leaves(ns, act) ==
    SelectSeq(find_leaves(ns), LAMBDA leave : InSeq(ns[leave].game_master, act))

\* GameTreeNode.__bool__ of the parent of a node; None is falsy.
has_parent(ns, node) ==
    ns[node].parent > 0 /\ ns[ns[node].parent].branches # <<>>

RECURSIVE label_active_recursive(_, _)
\* master.py lines 126-129: tag the node and its ancestors.
label_active_recursive(ns, active_node) ==
    IF has_parent(ns, active_node)
    THEN label_active_recursive(
             [ns EXCEPT ![active_node].tags = @ \cup {"active"}],
             ns[active_node].parent)
    ELSE [ns EXCEPT ![active_node].tags = @ \cup {"active"}]

RECURSIVE label_from(_, _, _)
\* master.py lines 131-132, from the k-th active leaf on.
label_from(ns, leaves, k) ==
    IF k > Len(leaves) THEN ns
    ELSE label_from(label_active_recursive(ns, leaves[k]), leaves, k + 1)

\* Mutant of labelled: the tags of earlier calls are cleared first.
labelled_fresh(ns, act) ==
    label_from([n \in 1..Len(ns) |-> [ns[n] EXCEPT !.tags = {}]],
               active_leaves(ns, act), 1)

\* master.py lines 120-132: the nodes after the active leaves and their
\* ancestors were tagged.
labelled(ns, act) == label_from(ns, active_leaves(ns, act), 1)

\* master.py line 136: the branches given to the copy of a node.
copied_branches(ns, active_node) ==
    SelectSeq(ns[active_node].branches, LAMBDA node : "active" \in ns[node].tags)

\* master.py lines 134-142. copy() is shallow: active_root is a new node
\* object that shares the list of branches and the set of tags with the root
\* (branches_of, tags_of). copy_active_tree_recursive copies its argument
\* once more and gives the filtered branches to that second copy; no node
\* refers to these copies when the call returns. They are kept in copies,
\* by the node they were copied from.
copy_active_tree(ns) ==
    [branches_of |-> 1,
     tags_of     |-> 1,
     game_master |-> ns[1].game_master,
     parent      |-> ns[1].parent,
     copies      |-> [n \in {m \in 1..Len(ns) : "active" \in ns[m].tags}
                         |-> copied_branches(ns, n)]]

\* Mutant of get_active_tree: the filtered branches are given to the nodes
\* of the tree themselves, not to copies.
get_active_tree_inplace(ns, act) ==
    [nodes |-> [n \in 1..Len(ns) |->
                   [labelled(ns, act)[n] EXCEPT
                        !.branches = copied_branches(labelled(ns, act), n)]],
     root  |-> copy_active_tree(labelled(ns, act))]

\* BranchingGameMaster.get_active_tree: the nodes after the call and the root
\* of the GameTree returned.
get_active_tree(ns, act) ==
    [nodes |-> labelled(ns, act),
     root  |-> copy_active_tree(labelled(ns, act))]

\* get_active_tree() is called between two turns or at the end. views keeps
\* the root returned and the leaves that were active at the call.
GetActiveTree ==
    /\ bpc \in {"observe", "done"}
    /\ Len(views) < MaxViews
    /\ Len(gms) <= MaxViewMasters
    /\ nodes' = get_active_tree(nodes, active).nodes
    /\ views' = Append(views, [root   |-> get_active_tree(nodes, active).root,
                               leaves |-> active_leaves(nodes, active)])
    /\ call' = [call EXCEPT !.op = "get_active_tree"]
    /\ UNCHANGED <<gms, bpc, factor, criteria, bdone, active, steps, round>>
    /\ UNCHANGED <<schedVars, recVars>>

\* connect_to on the root of a returned tree: the list it appends to is the
\* list the copy shares (tree.py lines 52-55). The copy with index j is the
\* parent -j of the node connected.
connect_to_view(ns, root, j, branch_node) ==
    IF InSeq(branch_node, ns[root.branches_of].branches)
    THEN ns
    ELSE [ns EXCEPT ![root.branches_of].branches = Append(@, branch_node),
                    ![branch_node].parent = -j]

\* The caller of get_active_tree() connects a node of its own to the root of
\* the tree it was given.
ConnectToView ==
    /\ call.op = "get_active_tree"
    /\ Len(gms) < MaxMasters
    /\ gms' = Append(gms, NewGame)
    /\ nodes' = connect_to_view(Append(nodes, GameTreeNode(Len(gms) + 1)),
                                views[Len(views)].root, Len(views), Len(nodes) + 1)
    /\ call' = [call EXCEPT !.op = "view_connect_to", !.child = Len(nodes) + 1]
    /\ UNCHANGED <<bpc, factor, criteria, bdone, active, steps, round, views>>
    /\ UNCHANGED <<schedVars, recVars>>

BranchViewNext ==
    \/ NewBranchingGameMaster
    \/ ObserveAndRespond
    \/ BranchingGameMasterStep
    \/ GetActiveTree

BranchViewSpec == Init /\ [][BranchViewNext]_vars

BranchViewEditNext ==
    \/ NewBranchingGameMaster
    \/ ObserveAndRespond
    \/ BranchingGameMasterStep
    \/ GetActiveTree
    \/ ConnectToView

BranchViewEditSpec == Init /\ [][BranchViewEditNext]_vars

\* get_active_tree() has just returned.
Extracted == call.op = "get_active_tree"

\* The nodes of the orchestrator's store that the tree under a returned root
\* reaches: the returned root has the branches of the node it shares them with.
ViewNodes(root) == Within(root.branches_of, Len(nodes))

\* C24: in the tree get_active_tree() returns, every child of every node
\* reachable from the returned root has the tag "active".
C24_OnlyActiveChildren ==
    Extracted =>
        \A n \in ViewNodes(views[Len(views)].root) :
            \A j \in 1..Len(nodes[n].branches) :
                "active" \in nodes[nodes[n].branches[j]].tags

\* C25: connecting a node to the root of a returned tree changes the child
\* list of no node of the orchestrator's tree: the node connected is in none
\* of them.
C25_ViewIndependent ==
    call.op = "view_connect_to" =>
        \A n \in 1..(call.child - 1) : ~InSeq(call.child, nodes[n].branches)

RECURSIVE Ancestry(_)
\* A node and its ancestors in the orchestrator's tree.
Ancestry(n) ==
    IF nodes[n].parent > 0 THEN {n} \cup Ancestry(nodes[n].parent) ELSE {n}

\* The nodes that carry the tag "active".
Tagged == {n \in 1..Len(nodes) : "active" \in nodes[n].tags}

\* The leaves that were active at the j-th get_active_tree() call, with
\* their ancestors.
ActiveAt(j) ==
    UNION {Ancestry(views[j].leaves[k]) : k \in 1..Len(views[j].leaves)}

\* C26: no step() and no get_active_tree() call removes a tag, and the tagged
\* nodes are the leaves that were active at any get_active_tree() call so
\* far together with their ancestors.
C26_TagsOnlyAdded ==
    /\ [][\A n \in 1..Len(nodes) : nodes[n].tags \subseteq nodes'[n].tags]_vars
    /\ [](Tagged = UNION {ActiveAt(j) : j \in 1..Len(views)})

\* At the second call a leaf of the first call is tagged although it is not
\* active any more and has no active descendant.
C26_Witness ==
    /\ Extracted
    /\ Len(views) = 2
    /\ \E n \in Tagged : n \in ActiveAt(1) /\ n \notin ActiveAt(2)
    /\ \E n \in Tagged : n \in ActiveAt(2) /\ n \notin ActiveAt(1)

\* ---------------------------------------------------------------------------
\* BranchingGameMaster.setup
\* ---------------------------------------------------------------------------

\* The game instances an episode is set up on.
Instances == {1}

\* BranchingGameMaster.setup: self._root.setup(**game_instance), nothing else.
\* The root master is the first game master made.
setup(gs, game_instance) == [gs EXCEPT ![1] = gm_setup(@, game_instance)]

\* setup() is called on a constructed BranchingGameMaster, before the first
\* turn or between two turns or at the end.
Setup ==
    /\ bpc \in {"observe", "done"}
    /\ \E game_instance \in Instances :
           /\ gms' = setup(gms, game_instance)
           /\ call' = [call EXCEPT !.op = "setup", !.child = game_instance]
    /\ UNCHANGED <<nodes, bpc, factor, criteria, bdone, active, steps, round, views>>
    /\ UNCHANGED <<schedVars, recVars>>

BranchSetupNext ==
    \/ NewBranchingGameMaster
    \/ Setup
    \/ ObserveAndRespond
    \/ BranchingGameMasterStep

BranchSetupSpec == Init /\ [][BranchSetupNext]_vars

\* C27: whenever setup(instance) has been called, the root master has been
\* set up on the instance, the tree is a single root node and the root
\* master is the only active master.
C27_SetupGivesRootOnly ==
    call.op = "setup" =>
        /\ gms[1] = gm_setup(NewGame, call.child)
        /\ Len(nodes) = 1
        /\ nodes[1] = GameTreeNode(1)
        /\ active = <<1>>

\* ---------------------------------------------------------------------------
\* Calls after the overall done value has become true
\* ---------------------------------------------------------------------------

\* A caller goes on after is_done() was true: it calls branching_response on
\* the active masters, or on the root master, and hands the result to step().
RespondAfterDone ==
    /\ bpc = "done"
    /\ \E parent_masters \in {active, <<1>>} :
         /\ Len(gms) + forks(gms, parent_masters, factor, criteria) <= MasterLimit
         /\ steps' = branching_response(
                gms, parent_masters, factor, criteria,
                [k \in 1..forks(gms, parent_masters, factor, criteria) |-> "go"])
         /\ call' = [call EXCEPT !.op = "branching_response", !.args = parent_masters]
    /\ gms' = deepcopies(gms, steps')
    /\ bpc' = "step"
    /\ UNCHANGED <<nodes, factor, criteria, bdone, active, round, views>>
    /\ UNCHANGED <<schedVars, recVars>>

BranchLateNext ==
    \/ NewBranchingGameMaster
    \/ ObserveAndRespond
    \/ RespondAfterDone
    \/ BranchingGameMasterStep

BranchLateSpec == Init /\ [][BranchLateNext]_vars

\* C28: is_done() is false before the first step(), it is true after a step()
\* only if every candidate of that step was done, and a step() that starts
\* with is_done() true ends with is_done() true.
C28_StatusForward ==
    /\ (bpc # "idle" /\ call.seq = 0) => ~branching_is_done
    /\ Stepped =>
           /\ branching_is_done =>
                  \A k \in 1..Len(round.candidates) : round.candidates[k].done
           /\ round.was_done => branching_is_done

\* ---------------------------------------------------------------------------
\* The places that accept a branching factor
\* ---------------------------------------------------------------------------

\* BranchingGameBenchmark.__init__: the assertion comes before any field is set.
NewBranchingGameBenchmark ==
    /\ bpc = "idle"
    /\ \E f \in 0..MaxFactor, c \in Criteria :
           /\ IF f > 0
              THEN factor' = f /\ criteria' = c /\ bpc' = "benchmark"
              ELSE bpc' = "rejected" /\ UNCHANGED <<factor, criteria>>
           /\ call' = [call EXCEPT !.op = "init_benchmark", !.factor = f]
    /\ UNCHANGED <<gms, nodes, bdone, active, steps, round, views>>
    /\ UNCHANGED <<schedVars, recVars>>

\* BranchingGameBenchmark.create_game_master
CreateGameMaster ==
    /\ bpc = "benchmark"
    /\ init_master(factor, criteria)

\* A caller calls BranchingPlayer.branching_response on the active masters
\* with a branching factor of its own choice.
RespondWithFactor ==
    /\ bpc = "observe"
    /\ \E f \in 0..MaxFactor :
         /\ Len(gms) + forks(gms, active, f, criteria) <= MasterLimit
         /\ steps' = branching_response(
                gms, active, f, criteria,
                [k \in 1..forks(gms, active, f, criteria) |-> "go"])
         /\ call' = [call EXCEPT !.op = "branching_response",
                                 !.args = active, !.factor = f]
    /\ gms' = deepcopies(gms, steps')
    /\ bpc' = "step"
    /\ UNCHANGED <<nodes, factor, criteria, bdone, active, round, views>>
    /\ UNCHANGED <<schedVars, recVars>>

BranchFactorNext ==
    \/ NewBranchingGameMaster
    \/ NewBranchingGameBenchmark
    \/ CreateGameMaster
    \/ RespondWithFactor
    \/ BranchingGameMasterStep

BranchFactorSpec == Init /\ [][BranchFactorNext]_vars

\* C29: a branching factor that is not positive is rejected wherever one is
\* accepted: by the two constructors and by branching_response, before any
\* game master is copied or stepped and without any list of branching steps.
C29_NonPositiveRejected ==
    (call.op \in {"init", "init_benchmark", "branching_response"}
         /\ call.factor <= 0) =>
        /\ bpc = "rejected"
        /\ steps = <<>>
        /\ round = <<>>

\* ---------------------------------------------------------------------------
\* GameTree.find_node on trees whose nodes may wrap the same game master
\* ---------------------------------------------------------------------------

\* A caller creates a game master; all of them have equal contents.
NewGameMaster ==
    /\ Len(gms) < MaxNodes
    /\ gms' = Append(gms, NewGame)
    /\ call' = [call EXCEPT !.op = "new_master"]
    /\ UNCHANGED <<nodes, bpc, factor, criteria, bdone, active, steps, round, views>>
    /\ UNCHANGED <<schedVars, recVars>>

\* GameTree(GameTreeNode(game_master)): the root of a tree.
NewGameTree ==
    /\ nodes = <<>>
    /\ \E game_master \in 1..Len(gms) :
           nodes' = <<GameTreeNode(game_master)>>
    /\ call' = [call EXCEPT !.op = "new_tree"]
    /\ UNCHANGED <<gms, bpc, factor, criteria, bdone, active, steps, round, views>>
    /\ UNCHANGED <<schedVars, recVars>>

\* A caller connects a new node to a node of the tree. The new node wraps any
\* game master, also one that a node of the tree wraps already.
AttachNode ==
    /\ nodes # <<>>
    /\ Len(nodes) < MaxNodes
    /\ \E self \in 1..Len(nodes), game_master \in 1..Len(gms) :
           nodes' = connect_to(Append(nodes, GameTreeNode(game_master)),
                               self, Len(nodes) + 1)
    /\ call' = [call EXCEPT !.op = "attach"]
    /\ UNCHANGED <<gms, bpc, factor, criteria, bdone, active, steps, round, views>>
    /\ UNCHANGED <<schedVars, recVars>>

\* find_node(target_master) is called; call.child is the node returned.
FindNode ==
    /\ nodes # <<>>
    /\ \E target_master \in 1..Len(gms) :
           call' = [call EXCEPT !.op = "find_node",
                                !.args = <<target_master>>,
                                !.child = find_node(nodes, target_master)]
    /\ UNCHANGED <<gms, nodes, bpc, factor, criteria, bdone, active, steps, round, views>>
    /\ UNCHANGED <<schedVars, recVars>>

FindNext == NewGameMaster \/ NewGameTree \/ AttachNode \/ FindNode

FindSpec == Init /\ [][FindNext]_vars

RECURSIVE PreOrder(_)
RECURSIVE PreOrderAmong(_, _)
\* The nodes under node n in depth-first pre-order, children in insertion order.
PreOrder(n) == <<n>> \o PreOrderAmong(nodes[n].branches, 1)

PreOrderAmong(branches, k) ==
    IF k > Len(branches) THEN <<>>
    ELSE PreOrder(branches[k]) \o PreOrderAmong(branches, k + 1)

\* The positions in the pre-order of the tree of the nodes that wrap master g.
Wrapping(g) ==
    {k \in 1..Len(PreOrder(1)) : nodes[PreOrder(1)[k]].game_master = g}

\* C30: find_node returns None exactly if no node of the tree wraps the
\* master, and otherwise the first node in depth-first pre-order that wraps
\* it; a node that wraps another master with equal contents is not returned.
C30_FindNodeFirst ==
    call.op = "find_node" =>
        /\ call.child = 0 <=> Wrapping(call.args[1]) = {}
        /\ call.child # 0 =>
               /\ nodes[call.child].game_master = call.args[1]
               /\ \E k \in Wrapping(call.args[1]) :
                      /\ PreOrder(1)[k] = call.child
                      /\ \A j \in Wrapping(call.args[1]) : k <= j

\* The third node is found although the root and the second node wrap
\* masters with the same contents.
C30_Witness ==
    /\ call.op = "find_node"
    /\ Len(nodes) = 3
    /\ call.child = 3
    /\ nodes[1].game_master # call.args[1]
    /\ nodes[2].game_master # call.args[1]
    /\ gms[nodes[2].game_master] = gms[call.args[1]]

\* ---------------------------------------------------------------------------
\* GameTree.find_leaves
\* ---------------------------------------------------------------------------

\* find_leaves() is called; call.args is the list returned.
FindLeaves ==
    /\ nodes # <<>>
    /\ call' = [call EXCEPT !.op = "find_leaves", !.args = find_leaves(nodes)]
    /\ UNCHANGED <<gms, nodes, bpc, factor, criteria, bdone, active, steps, round, views>>
    /\ UNCHANGED <<schedVars, recVars>>

LeavesNext == NewGameMaster \/ NewGameTree \/ AttachNode \/ FindLeaves

LeavesSpec == Init /\ [][LeavesNext]_vars

\* The position of node n in the pre-order of the tree.
VisitedAt(n) == CHOOSE k \in 1..Len(PreOrder(1)) : PreOrder(1)[k] = n

C33_ExtractionFrame ==
    [][Len(views') > Len(views) =>
           /\ Len(nodes') = Len(nodes)
           /\ \A n \in 1..Len(nodes) :
                  /\ nodes'[n].branches = nodes[n].branches
                  /\ nodes'[n].parent = nodes[n].parent
                  /\ nodes'[n].game_master = nodes[n].game_master
                  /\ nodes[n].tags \subseteq nodes'[n].tags
           /\ gms' = gms
           /\ active' = active
           /\ bdone' = bdone]_vars

\* A call has tagged some nodes and a node with a parent is left untagged:
\* its parent still has it as a child.
C33_Witness ==
    /\ Extracted
    /\ Tagged # {}
    /\ \E n \in 1..Len(nodes) :
           /\ "active" \notin nodes[n].tags
           /\ nodes[n].parent > 0
           /\ InSeq(n, nodes[nodes[n].parent].branches)

\* ---------------------------------------------------------------------------
\* GameInteractionsRecorder and EventCallRecorder
\* ---------------------------------------------------------------------------

\* Largest number of calls made on the two recorders in one run.
MaxLogCalls == 5

\* The keys log_key is called with: a key of the game, and the key under
\* which the recorder keeps its meta mapping.
LogKeys == {"episode", "meta"}

\* The mappings a caller logs under the key "meta".
MetaValues ==
    {[round_count |-> None, completed |-> None],
     [round_count |-> Some(1), completed |-> Some(TRUE)]}

\* Mutant of log_next_round: round_count is the index of the current round.
log_next_round_index(rec) ==
    [rec EXCEPT
        !.current_round = @ + 1,
        !.meta.round_count = Some(rec.current_round + 1),
        !.turns = Append(@, <<>>),
        !.requests_counts = Append(@, 0),
        !.violated_requests_counts = Append(@, 0),
        !.successful_requests_counts = Append(@, 0)]

\* GameInteractionsRecorder.log_next_round
log_next_round(rec) ==
    [rec EXCEPT
        !.current_round = @ + 1,
        !.meta.round_count = Some((rec.current_round + 1) + 1),
        !.turns = Append(@, <<>>),
        !.requests_counts = Append(@, 0),
        !.violated_requests_counts = Append(@, 0),
        !.successful_requests_counts = Append(@, 0)]

\* GameInteractionsRecorder.log_key: interactions[key] = value. The entry
\* "meta" of interactions is the field meta, the game's entries are in keys.
log_key(rec, key, value) ==
    IF key = "meta" THEN [rec EXCEPT !.meta = value]
    ELSE [rec EXCEPT !.keys = {e \in @ : e.key # key}
                                 \cup {[key |-> key, value |-> value]}]

\* GameInteractionsRecorder.log_game_end; the metrics are logged by reference
\* to the three count lists.
log_game_end(rec, auto_count_logging) ==
    LET ended == [rec EXCEPT !.meta.round_count = Some(rec.current_round + 1),
                             !.meta.completed = Some(TRUE)]
    IN  IF auto_count_logging
        THEN log_key(log_key(log_key(ended, "METRIC_REQUEST_COUNT", "requests_counts"),
                             "METRIC_REQUEST_COUNT_VIOLATED", "violated_requests_counts"),
                     "METRIC_REQUEST_COUNT_PARSED", "successful_requests_counts")
        ELSE ended

\* GameInteractionsRecorder.log_event: the action is added to the current round.
log_event(rec) ==
    [rec EXCEPT !.turns[rec.current_round + 1] = Append(@, "action")]

\* GameInteractionsRecorder.count_request
count_request(rec) ==
    [rec EXCEPT !.requests_counts[rec.current_round + 1] = @ + 1,
                !.successful_requests_counts[rec.current_round + 1] = @ + 1]

\* GameInteractionsRecorder.count_request_violation
count_request_violation(rec) ==
    [rec EXCEPT !.violated_requests_counts[rec.current_round + 1] = @ + 1,
                !.successful_requests_counts[rec.current_round + 1] = @ - 1]

\* EventCallRecorder.log_next_round
event_log_next_round(rec) ==
    [rec EXCEPT !.round = @ + 1, !.meta.round_count = Some((rec.round + 1) + 1)]

\* EventCallRecorder.log_game_end
event_log_game_end(rec) ==
    [rec EXCEPT !.meta.round_count = Some(rec.round + 1),
                !.meta.completed = Some(TRUE)]

\* EventCallRecorder.log_event: only a call tuple of the recorder's own
\* player is recorded, with the current round.
event_log_event(rec, from_player, is_tuple) ==
    IF from_player /\ is_tuple
    THEN [rec EXCEPT !.calls = Append(@, [round |-> rec.round])]
    ELSE rec

LogNextRound ==
    /\ log_calls.total < MaxLogCalls
    /\ recorder' = log_next_round(recorder)
    /\ log_calls' = [log_calls EXCEPT !.total = @ + 1, !.log_next_round = @ + 1]
    /\ UNCHANGED event_recorder
    /\ UNCHANGED <<schedVars, treeVars>>

LogGameEnd ==
    /\ log_calls.total < MaxLogCalls
    /\ \E auto_count_logging \in BOOLEAN :
           recorder' = log_game_end(recorder, auto_count_logging)
    /\ log_calls' = [log_calls EXCEPT !.total = @ + 1, !.log_game_end = @ + 1]
    /\ UNCHANGED event_recorder
    /\ UNCHANGED <<schedVars, treeVars>>

LogKey ==
    /\ log_calls.total < MaxLogCalls
    /\ \E key \in LogKeys :
           IF key = "meta"
           THEN /\ \E value \in MetaValues : recorder' = log_key(recorder, key, value)
                /\ log_calls' = [log_calls EXCEPT !.total = @ + 1, !.log_meta = @ + 1]
           ELSE /\ recorder' = log_key(recorder, key, "value")
                /\ log_calls' = [log_calls EXCEPT !.total = @ + 1]
    /\ UNCHANGED event_recorder
    /\ UNCHANGED <<schedVars, treeVars>>

\* log_event, count_request or count_request_violation is called.
LogEvent ==
    /\ log_calls.total < MaxLogCalls
    /\ recorder' \in {log_event(recorder), count_request(recorder),
                      count_request_violation(recorder)}
    /\ log_calls' = [log_calls EXCEPT !.total = @ + 1]
    /\ UNCHANGED event_recorder
    /\ UNCHANGED <<schedVars, treeVars>>

EventLogNextRound ==
    /\ log_calls.total < MaxLogCalls
    /\ event_recorder' = event_log_next_round(event_recorder)
    /\ log_calls' = [log_calls EXCEPT !.total = @ + 1, !.event_log_next_round = @ + 1]
    /\ UNCHANGED recorder
    /\ UNCHANGED <<schedVars, treeVars>>

EventLogGameEnd ==
    /\ log_calls.total < MaxLogCalls
    /\ event_recorder' = event_log_game_end(event_recorder)
    /\ log_calls' = [log_calls EXCEPT !.total = @ + 1, !.event_log_game_end = @ + 1]
    /\ UNCHANGED recorder
    /\ UNCHANGED <<schedVars, treeVars>>

\* log_event, or one of the methods of EventCallRecorder that do nothing.
EventLogEvent ==
    /\ log_calls.total < MaxLogCalls
    /\ \E from_player, is_tuple \in BOOLEAN :
           event_recorder' = event_log_event(event_recorder, from_player, is_tuple)
    /\ log_calls' = [log_calls EXCEPT !.total = @ + 1]
    /\ UNCHANGED recorder
    /\ UNCHANGED <<schedVars, treeVars>>

RecNext ==
    \/ LogNextRound
    \/ LogGameEnd
    \/ LogKey
    \/ LogEvent
    \/ EventLogNextRound
    \/ EventLogGameEnd
    \/ EventLogEvent

RecSpec == Init /\ [][RecNext]_vars

\* What the claim says meta holds after next log_next_round calls and ended
\* log_game_end calls.
RoundMeta(next, ended) ==
    [round_count |-> IF next + ended = 0 THEN None ELSE Some(next + 1),
     completed   |-> IF ended = 0 THEN None ELSE Some(TRUE)]

ObserveAndRespondAll ==
    /\ bpc = "observe"
    /\ Len(gms) + forks(gms, active, factor, criteria) <= MasterLimit
    /\ \E stops \in StopChoices(forks(gms, active, factor, criteria),
                                MaxStops - StopsGiven) :
         steps' = branching_response(
                      gms, active, factor, criteria,
                      [k \in 1..forks(gms, active, factor, criteria) |->
                          IF k \in stops THEN "stop" ELSE "go"])
    /\ call' = [call EXCEPT !.op = "branching_response", !.args = active]
    /\ gms' = deepcopies(gms, steps')
    /\ bpc' = "step"
    /\ UNCHANGED <<nodes, factor, criteria, bdone, active, round, views>>
    /\ UNCHANGED <<schedVars, recVars>>

BranchAllNext ==
    \/ NewBranchingGameMaster
    \/ ObserveAndRespondAll
    \/ BranchingGameMasterStep

BranchAllSpec == Init /\ [][BranchAllNext]_vars

RECURSIVE Depth(_)
\* The number of parent links from node n up to the root.
Depth(n) == IF nodes[n].parent = 0 THEN 0 ELSE 1 + Depth(nodes[n].parent)

\* C35: when every step() is given the branching steps for all active
\* masters, then after the construction and after every step() the active
\* masters are the game masters that the leaves of the tree wrap, and every
\* leaf lies at a depth equal to the number of step() calls.
C35_ActiveAreLeaves ==
    bpc \in {"observe", "done"} =>
        /\ {active[k] : k \in 1..Len(active)} =
               {nodes[n].game_master : n \in LeafSet(nodes)}
        /\ \A n \in LeafSet(nodes) : Depth(n) = call.seq

\* After the second step() there are at least three leaves, and one of them
\* wraps a game master that was finished before this step already.
C35_Witness ==
    /\ Returned
    /\ call.seq = 2
    /\ Cardinality(LeafSet(nodes)) >= 3
    /\ \E k \in 1..Len(round.before) : round.gms[round.before[k]].done

\* ---------------------------------------------------------------------------
\* Which game masters are stepped
\* ---------------------------------------------------------------------------

\* The branch masters of the branching steps that wait for step().
PendingBranches ==
    {Flatten(steps)[k].branch_master : k \in 1..Len(Flatten(steps))}

\* The game masters that tree nodes wrap.
Wrapped == {nodes[n].game_master : n \in 1..Len(nodes)}

\* C36: a game master changes only by being stepped once as the branch
\* master of a branching step handed to step(); it is then neither the root
\* master nor wrapped by a node. So the root master is never stepped, and
\* the master of every other node has been stepped exactly once since it was
\* copied from the master of the parent node.
C36_SteppedOnce ==
    /\ [][\A g \in 1..Len(gms) :
              gms'[g] # gms[g] =>
                  /\ g \in PendingBranches
                  /\ g \notin Wrapped
                  /\ g # 1
                  /\ gms'[g].turn = gms[g].turn + 1]_vars
    /\ [](nodes # <<>> =>
              /\ gms[nodes[1].game_master].turn = 0
              /\ \A n \in 2..Len(nodes) :
                     gms[nodes[n].game_master].turn =
                         gms[nodes[nodes[n].parent].game_master].turn + 1)

\* The second step() has attached a node under a node of the first step():
\* the master of the parent was a parent master and was not stepped again.
C36_Witness ==
    /\ Returned
    /\ call.seq = 2
    /\ \E n \in 2..Len(nodes) :
           /\ nodes[n].parent > 1
           /\ gms[nodes[nodes[n].parent].game_master].turn = 1
           /\ gms[nodes[n].game_master].turn = 2

\* ---------------------------------------------------------------------------
\* step() without candidates
\* ---------------------------------------------------------------------------

\* A caller calls branching_response on an empty list of parent masters and
\* hands the empty result to step().
RespondToNone ==
    /\ bpc = "observe"
    /\ steps' = branching_response(gms, <<>>, factor, criteria, <<>>)
    /\ call' = [call EXCEPT !.op = "branching_response", !.args = <<>>]
    /\ gms' = deepcopies(gms, steps')
    /\ bpc' = "step"
    /\ UNCHANGED <<nodes, factor, criteria, bdone, active, round, views>>
    /\ UNCHANGED <<schedVars, recVars>>

BranchEmptyNext ==
    \/ NewBranchingGameMaster
    \/ RespondWithFactor
    \/ RespondToNone
    \/ BranchingGameMasterStep

BranchEmptySpec == Init /\ [][BranchEmptyNext]_vars

\* C37: a step() call that processes no candidate, because it is given the
\* empty list or only empty groups, leaves the orchestrator done and without
\* active masters and leaves the tree and the game masters as they were; it
\* returns True and one empty list of infos per group.
C37_EmptyStep ==
    (Stepped /\ Flatten(round.steps) = <<>>) =>
        /\ round.raised = 0
        /\ bdone
        /\ active = <<>>
        /\ nodes = round.nodes
        /\ gms = round.gms
        /\ round.returned = <<TRUE, [i \in 1..Len(round.steps) |-> <<>>]>>

\* step() was given two empty groups when the tree had grown, there were
\* active masters and the orchestrator was not done.
C37_Witness ==
    /\ Stepped
    /\ round.steps = << <<>>, <<>> >>
    /\ Len(nodes) >= 3
    /\ round.before # <<>>
    /\ ~round.was_done

\* ---------------------------------------------------------------------------
\* What a raising step() leaves behind
\* ---------------------------------------------------------------------------

\* A driving loop replaces the j-th active master by a copy of its own, which
\* no tree node wraps; the player ends the episode in every branch of the
\* copy and goes on in the others.
ObserveAndRespondForeignStop ==
    /\ bpc = "observe"
    /\ \E j \in 1..Len(active) :
         LET copied  == Append(gms, gms[active[j]])
             parents == [active EXCEPT ![j] = Len(gms) + 1]
         IN  /\ Len(copied) + forks(copied, parents, factor, criteria) <= MaxMasters
             /\ steps' = branching_response(
                    copied, parents, factor, criteria,
                    [k \in 1..forks(copied, parents, factor, criteria) |->
                        IF /\ k > forks_before(copied, parents, factor, criteria, j)
                           /\ k <= forks_before(copied, parents, factor, criteria, j + 1)
                        THEN "stop" ELSE "go"])
             /\ gms' = deepcopies(copied, steps')
             /\ call' = [call EXCEPT !.op = "branching_response", !.args = parents]
    /\ bpc' = "step"
    /\ UNCHANGED <<nodes, factor, criteria, bdone, active, round, views>>
    /\ UNCHANGED <<schedVars, recVars>>

BranchRaiseNext ==
    \/ NewBranchingGameMaster
    \/ ObserveAndRespond
    \/ ObserveAndRespondForeignStop
    \/ BranchingGameMasterStep

BranchRaiseSpec == Init /\ [][BranchRaiseNext]_vars

\* C38: when step() raises for the k-th candidate, whose parent master no
\* node wraps, every branch master of the call has been stepped, also those
\* of the candidates after the k-th; the done flag says whether all
\* candidates of the call were done; the active masters are the branch
\* masters of the candidates before the k-th, and these are the nodes added.
C38_RaiseAfterApply ==
    (Stepped /\ round.raised # 0) =>
        /\ \A j \in 1..Len(round.candidates) :
               gms[round.candidates[j].response.branch_master].turn =
                   round.gms[round.candidates[j].response.branch_master].turn + 1
        /\ bdone = \A j \in 1..Len(round.candidates) : round.candidates[j].done
        /\ active = [j \in 1..(round.raised - 1) |->
                        round.candidates[j].response.branch_master]
        /\ Len(nodes) = Len(round.nodes) + round.raised - 1
        /\ \A j \in 1..(round.raised - 1) :
               nodes[Len(round.nodes) + j].game_master = active[j]

\* step() raised after it had attached a candidate and before it reached the
\* last one, and the done flag went from false to true in this call.
C38_Witness ==
    /\ Stepped
    /\ round.raised >= 2
    /\ round.raised < Len(round.candidates)
    /\ ~round.was_done
    /\ bdone

\* ---------------------------------------------------------------------------
\* What every session contributes to a complete run of the loader
\* ---------------------------------------------------------------------------

\* The session ids and the contexts of all rows emitted so far, in order.
EmittedIds == Flatten([j \in 1..Len(batches) |-> batches[j][1]])

EmittedContexts == Flatten([j \in 1..Len(batches) |-> batches[j][3]])

\* The turns of the rows emitted for the session with this id, in order.
EmittedTurns(session_id) ==
    LET rows == SelectSeq([k \in 1..Len(EmittedIds) |-> k],
                          LAMBDA k : EmittedIds[k] = session_id)
    IN  [m \in 1..Len(rows) |-> EmittedContexts[rows[m]].turn]

\* The number of rows of session_id among the batches of pass p.
RowsInPass(session_id, p) ==
    Cardinality({<<j, k>> \in (1..Len(batches)) \X (1..MaxBatchSize) :
                     /\ batchPass[j] = p
                     /\ k <= Len(batches[j][1])
                     /\ batches[j][1][k] = session_id})

\* C39: when the iteration has ended, the rows emitted for each session are
\* its observations 1, 2, ..., done_after in this order, none missing and
\* none twice, where done_after is the number of observations its env
\* allows; and no pass has two rows of one session.
C39_EachSessionComplete ==
    pc = "done" =>
        \A i \in 1..Len(envs) :
            /\ EmittedTurns(envs[i].session_id) =
                   [m \in 1..envs[i].done_after |-> m]
            /\ \A p \in 1..Len(passes) : RowsInPass(envs[i].session_id, p) <= 1

\* A complete run of three sessions of three different lengths in which no
\* pass fits into one batch.
C39_Witness ==
    /\ pc = "done"
    /\ Len(envs) = 3
    /\ batch_size = 2
    /\ envs[1].done_after = 3
    /\ envs[2].done_after = 1
    /\ envs[3].done_after = 2
    /\ Len(EmittedIds) = 6

====
